---- MODULE Spec2Model ----
(***************************************************************************)
(* Product image gallery: the ordering / primary-flag engine               *)
(* (backend productImageService.ts) and the gallery controller              *)
(* (frontend hook useProductImageGallery).                                  *)
(*                                                                         *)
(* Optional request fields are modelled as sequences of length 0 or 1:     *)
(* None is JavaScript `undefined`, Some(v) is a supplied value.  Null is   *)
(* JavaScript `null` (only the caption is nullable).                       *)
(***************************************************************************)
EXTENDS Integers, Sequences, FiniteSets, TLC

\* ---------------------------------------------------------------- bounds
\* Number of ids the store hands out in one run.
MaxId == 2
\* Number of records created in the runs that vary every field of a record.
MaxFieldRecords == 1
\* Length of the longest list the gallery query delivers.
MaxImages == 3

\* ------------------------------------------------------- optional values
None == <<>>
Some(v) == <<v>>
Null == "null"

\* `a ?? b` for a field that cannot be null
Coalesce(a, b) == IF a = None THEN b ELSE a[1]
\* faulty variant: only undefined falls through, null is taken as the value
CoalesceUndefinedOnly(a, b) == IF a = None THEN b ELSE a[1]
\* `a ?? b` for the nullable caption: null and undefined both fall through
CoalesceNullable(a, b) == IF a = None \/ a[1] = Null THEN b ELSE a[1]
\* truthiness of an optional boolean (`if (params.isPrimary)`)
Truthy(a) == a # None /\ a[1]

\* -------------------------------------------------------------- constants
PRODUCT_IMAGE_DEFAULTS == [WIDTH |-> 1200, HEIGHT |-> 800, ROTATION |-> 0]
PRODUCT_IMAGE_ROTATION_ANGLES == {0, 90, 180, 270}

\* ----------------------------------------------------------- input domains
Products == {9, 7}
Urls == {"https://x/a.jpg", "https://x/b.jpg"}
OrderValues == {0, 4}
\* Instants the clock read by `new Date()` runs through
Clock == 0 .. 1

\* Raw `rotation` values of a request body: JSON strings and JSON numbers
RotationEnum == {"0", "90", "180", "270"}
RotStr(t) == [kind |-> "string", text |-> t]
RotNum(t) == [kind |-> "number", text |-> t]

\* store   : the records of productImageStore, in insertion order
\* nextId  : the id productImageStore.getNextId() hands out next
\* now     : the clock read by `new Date()`
\* lastOp  : the last service call, its target id and how it ended
VARIABLES store, nextId, now, lastOp
\* calls      : the engine calls in flight when calls are taken one storage call
\*              at a time, per caller
\* serialized : whether an external lock lets only one engine call run at a time
VARIABLES calls, serialized
\* The state of one useProductImageGallery instance:
\* images       : the data of the list query (the ids listed), [] until it arrives
\* currentIndex, zoomLevel, rotation, isFullscreen : the four useState cells;
\*                zoomLevel is counted in tenths (10 is 1.0, 15 is 1.5): the
\*                values k * 0.5 the hook computes are exact in floating point
\* lastCall     : the last callback of the hook that ran, and the currentIndex,
\*                zoomLevel and rotation it started from
VARIABLES images, currentIndex, zoomLevel, rotation, isFullscreen, lastCall
galleryVars == <<images, currentIndex, zoomLevel, rotation, isFullscreen, lastCall>>
\* The requests of the hook that are under way:
\* mutation : the last setPrimary / reorderImage call of the controller: idle,
\*            pending (request sent), answered (the engine has handled it and
\*            its answer, kept in `answer`, travels back), success or error
\*            (the promise settled, with `answer` what it resolved or
\*            rejected with)
\* query    : the list query: stale (a fetch is due), fetching (the engine has
\*            answered with data, not yet delivered) or fresh
VARIABLES mutation, query
requestVars == <<mutation, query>>
\* The state of the ProductImageGallery component around the hook:
\* isDragging, dragStart, imagePosition : its three useState cells
\* listeners : the key-down listeners registered on window, each with the list
\*             length and the fullscreen flag its closure holds
\* mounted   : whether the component (and with it the hook instance) is mounted
\* event     : the last DOM event the component handled
VARIABLES isDragging, dragStart, imagePosition, listeners, mounted, event
viewerVars == <<isDragging, dragStart, imagePosition, listeners, mounted, event>>
vars == <<store, nextId, now, lastOp, calls, serialized, galleryVars, requestVars, viewerVars>>
\* what a whole engine call, run from start to end, leaves alone
callVars == <<calls, serialized, galleryVars, requestVars, viewerVars>>

\* the callers whose engine calls may overlap
Callers == {1, 2}
Idle == [pc |-> "idle"]

\* --------------------------------------------------- productImageStore
storeGetAll(s) == s
storeGetByProductId(s, productId) == SelectSeq(s, LAMBDA r : r.productId = productId)
storeExists(s, id) == \E i \in DOMAIN s : s[i].id = id
\* the record with this id, or None (`undefined`)
storeGetById(s, id) ==
    IF storeExists(s, id) THEN Some(s[CHOOSE i \in DOMAIN s : s[i].id = id]) ELSE None
storeAdd(s, record) == Append(s, record)
\* the fields of `patch` overwrite those of the record, the rest is kept
storeUpdate(s, id, patch) ==
    [i \in DOMAIN s |-> IF s[i].id = id THEN patch @@ s[i] ELSE s[i]]
storeDelete(s, id) == SelectSeq(s, LAMBDA r : r.id # id)
\* the counter behind getNextId() after it handed out n: ids are not reused
storeIdAfter(n) == n + 1

\* ------------------------------------------------------------ validation
parseInt(t) ==
    CASE t = "0" -> 0 [] t = "90" -> 90 [] t = "180" -> 180 [] t = "270" -> 270
      [] t = "45" -> 45 [] OTHER -> -1

\* z.string().min(1).max(URL_MAX_LENGTH).url()
urlOk(u) == u \in Urls
\* z.number().int().min(0).optional()
minZeroOk(a) == a = None \/ a[1] >= 0
\* z.number().int().positive().optional()
positiveOk(a) == a = None \/ a[1] > 0
\* faulty variant: any string is let through
rotationOkAnyString(a) == a = None \/ a[1].kind = "string"
\* z.enum([...]).transform(...).optional()
rotationOk(a) == a = None \/ (a[1].kind = "string" /\ a[1].text \in RotationEnum)
\* .transform((val) => parseInt(val)).optional()
rotationData(a) == IF a = None THEN None ELSE Some(parseInt(a[1].text))

createSchema(body) ==
    /\ body.productId > 0
    /\ urlOk(body.url)
    /\ minZeroOk(body.displayOrder)
    /\ positiveOk(body.width)
    /\ positiveOk(body.height)
    /\ rotationOk(body.rotation)

updateSchema(body) ==
    /\ urlOk(body.url)
    /\ minZeroOk(body.displayOrder)
    /\ positiveOk(body.width)
    /\ positiveOk(body.height)
    /\ rotationOk(body.rotation)

reorderSchema(body) == body.newOrder >= 0

\* z.coerce.number().int().positive()
paramsSchema(id) == id > 0

\* ---------------------------------------------------------------- helpers
\* Math.max(...xs) of a non-empty sequence
MathMax(xs) == CHOOSE m \in {xs[i] : i \in DOMAIN xs} : \A j \in DOMAIN xs : xs[j] <= m

\* imgs.forEach((img) => store.update(img.id, {isPrimary: false, dateModified: now})),
\* for the images the `if` of the loop body lets through
RECURSIVE forEachUnsetPrimary(_, _, _)
forEachUnsetPrimary(s, imgs, t) ==
    IF imgs = <<>> THEN s
    ELSE forEachUnsetPrimary(
             storeUpdate(s, Head(imgs).id, [isPrimary |-> FALSE, dateModified |-> t]),
             Tail(imgs), t)

\* faulty variant: the create sweep is left out
createSweepNone(s, productId, t) == s
\* faulty variant: the create sweep clears the flag without touching dateModified
createSweepKeepDate(s, productId, t) ==
    [i \in DOMAIN s |-> IF s[i].productId = productId /\ s[i].isPrimary
                         THEN [isPrimary |-> FALSE] @@ s[i] ELSE s[i]]
\* be-business-rule-001 in productImageCreate: every primary image of the product
createSweep(s, productId, t) ==
    forEachUnsetPrimary(s, SelectSeq(storeGetByProductId(s, productId),
                                     LAMBDA img : img.isPrimary), t)
\* faulty variant: the update sweep is left out
updateSweepNone(s, id, productId, t) == s
\* be-business-rule-001 in productImageUpdate: every other primary image of the product
updateSweep(s, id, productId, t) ==
    forEachUnsetPrimary(s, SelectSeq(storeGetByProductId(s, productId),
                                     LAMBDA img : img.id # id /\ img.isPrimary), t)
\* faulty variant: the sweep takes the primary images of every product
setPrimarySweepAllProducts(s, id, productId, t) ==
    forEachUnsetPrimary(s, SelectSeq(storeGetAll(s),
                                     LAMBDA img : img.id # id /\ img.isPrimary), t)
\* faulty variant: the comparison of the sweep is inverted (img.id === id)
setPrimarySweepSelf(s, id, productId, t) ==
    forEachUnsetPrimary(s, SelectSeq(storeGetByProductId(s, productId),
                                     LAMBDA img : img.id = id /\ img.isPrimary), t)
\* be-business-rule-001 in productImageSetPrimary: every other primary image of the product
setPrimarySweep(s, id, productId, t) ==
    forEachUnsetPrimary(s, SelectSeq(storeGetByProductId(s, productId),
                                     LAMBDA img : img.id # id /\ img.isPrimary), t)

\* faulty variant: the next order is taken from the number of siblings, not their maximum
createDisplayOrderByCount(s, params) ==
    LET displayOrder == Coalesce(params.displayOrder, 0)
        existingImages == storeGetByProductId(s, params.productId)
    IN IF displayOrder = 0 THEN Len(existingImages) + 1 ELSE displayOrder
\* be-business-rule-002: auto-assign display order if not provided
createDisplayOrder(s, params) ==
    LET displayOrder == Coalesce(params.displayOrder, 0)
        existingImages == storeGetByProductId(s, params.productId)
    IN IF displayOrder = 0
       THEN IF Len(existingImages) > 0
            THEN MathMax([i \in DOMAIN existingImages |-> existingImages[i].displayOrder]) + 1
            ELSE 1
       ELSE displayOrder

Result(op, id, status) == [op |-> op, id |-> id, status |-> status]

\* ------------------------------------------------------------- the engine
\* useState(0), useState(1.0), useState(0), useState(false); `data: images = []`
InitGallery ==
    /\ images = <<>>
    /\ currentIndex = 0
    /\ zoomLevel = 10
    /\ rotation = 0
    /\ isFullscreen = FALSE
    /\ lastCall = [op |-> "none", from |-> 0, zoom |-> 10, angle |-> 0]
    /\ mutation = [status |-> "idle", op |-> "none", id |-> 0, newOrder |-> 0, answer |-> "none"]
    /\ query = [status |-> "stale", data |-> <<>>]
    /\ isDragging = FALSE
    /\ dragStart = [x |-> 0, y |-> 0]
    /\ imagePosition = [x |-> 0, y |-> 0]
    /\ listeners = <<[length |-> 0, isFullscreen |-> FALSE]>>
    /\ mounted = TRUE
    /\ event = [type |-> "mount", key |-> ""]

Init ==
    /\ store = <<>>
    /\ nextId = 1
    /\ now = 0
    /\ lastOp = Result("none", 0, "OK")
    /\ calls = [c \in Callers |-> Idle]
    /\ serialized = TRUE
    /\ InitGallery

\* time passes between two service calls
Tick ==
    /\ now + 1 \in Clock
    /\ now' = now + 1
    /\ UNCHANGED <<store, nextId, lastOp>>
    /\ UNCHANGED callVars

\* the store after a validated create, and the record it adds
createdImage(s, id, params, t) ==
    [ id           |-> id,
      productId    |-> params.productId,
      url          |-> params.url,
      caption      |-> CoalesceNullable(params.caption, Null),
      isPrimary    |-> Coalesce(params.isPrimary, FALSE),
      displayOrder |-> createDisplayOrder(s, params),
      width        |-> Coalesce(params.width, PRODUCT_IMAGE_DEFAULTS.WIDTH),
      height       |-> Coalesce(params.height, PRODUCT_IMAGE_DEFAULTS.HEIGHT),
      rotation     |-> Coalesce(rotationData(params.rotation), PRODUCT_IMAGE_DEFAULTS.ROTATION),
      dateCreated  |-> t,
      dateModified |-> t ]

\* faulty variant: the sweep runs after the new record has been added
createStoreSweepAfterAdd(s, id, params, t) ==
    LET added == storeAdd(s, createdImage(s, id, params, t))
    IN IF Truthy(params.isPrimary) THEN createSweep(added, params.productId, t) ELSE added

createStore(s, id, params, t) ==
    LET swept == IF Truthy(params.isPrimary) THEN createSweep(s, params.productId, t) ELSE s
    IN storeAdd(swept, createdImage(swept, id, params, t))

productImageCreate(body) ==
    IF ~createSchema(body)
    THEN /\ lastOp' = Result("create", 0, "VALIDATION_ERROR")
         /\ UNCHANGED <<store, nextId, now>>
    ELSE /\ store' = createStore(store, nextId, body, now)
         /\ nextId' = storeIdAfter(nextId)
         /\ lastOp' = Result("create", nextId, "OK")
         /\ UNCHANGED now

\* the fields of a record that a list response carries
listItem(e) ==
    [ id |-> e.id, productId |-> e.productId, url |-> e.url, caption |-> e.caption,
      isPrimary |-> e.isPrimary, displayOrder |-> e.displayOrder,
      dateCreated |-> e.dateCreated ]

\* what productImageList returns; productId is None (`undefined`) or Some(n),
\* and `productId ? ... : records` takes 0 for no filter
productImageListOf(s, productId) ==
    LET records == storeGetAll(s)
        filtered == IF productId # None /\ productId[1] # 0
                    THEN SelectSeq(records, LAMBDA r : r.productId = productId[1])
                    ELSE records
    IN [i \in DOMAIN filtered |-> listItem(filtered[i])]

\* listHandler: the query parameter, when present and non-empty, is parsed
\* and handed to productImageList
productImageList(productId) ==
    /\ lastOp' = Result("list", Coalesce(productId, 0), "OK")
    /\ UNCHANGED <<store, nextId, now>>

\* what productImageGet throws or returns: `data` holds the record found
getOutcome(s, id) ==
    IF ~paramsSchema(id) THEN [status |-> "VALIDATION_ERROR", data |-> None]
    ELSE IF storeGetById(s, id) = None THEN [status |-> "NOT_FOUND", data |-> None]
    ELSE [status |-> "OK", data |-> storeGetById(s, id)]

productImageGet(id) ==
    /\ lastOp' = Result("get", id, getOutcome(store, id).status)
    /\ UNCHANGED <<store, nextId, now>>

\* faulty variant: a field the body leaves out falls back to the create default
updateStoreDefaults(s, id, updateData, t) ==
    LET existing == storeGetById(s, id)[1]
        swept == IF Truthy(updateData.isPrimary) /\ ~existing.isPrimary
                 THEN updateSweep(s, id, existing.productId, t)
                 ELSE s
    IN storeUpdate(swept, id,
         [ url          |-> updateData.url,
           caption      |-> CoalesceNullable(updateData.caption, existing.caption),
           isPrimary    |-> Coalesce(updateData.isPrimary, existing.isPrimary),
           displayOrder |-> Coalesce(updateData.displayOrder, existing.displayOrder),
           width        |-> Coalesce(updateData.width, PRODUCT_IMAGE_DEFAULTS.WIDTH),
           height       |-> Coalesce(updateData.height, PRODUCT_IMAGE_DEFAULTS.HEIGHT),
           rotation     |-> Coalesce(rotationData(updateData.rotation), existing.rotation),
           dateModified |-> t ])

\* faulty variant: the whole body is handed to store.update, owner included
updateStoreWholeBody(s, id, updateData, t) ==
    LET existing == storeGetById(s, id)[1]
        swept == IF Truthy(updateData.isPrimary) /\ ~existing.isPrimary
                 THEN updateSweep(s, id, existing.productId, t)
                 ELSE s
    IN storeUpdate(swept, id,
         [ productId    |-> updateData.productId,
           url          |-> updateData.url,
           caption      |-> CoalesceNullable(updateData.caption, existing.caption),
           isPrimary    |-> Coalesce(updateData.isPrimary, existing.isPrimary),
           displayOrder |-> Coalesce(updateData.displayOrder, existing.displayOrder),
           width        |-> Coalesce(updateData.width, existing.width),
           height       |-> Coalesce(updateData.height, existing.height),
           rotation     |-> Coalesce(rotationData(updateData.rotation), existing.rotation),
           dateModified |-> t ])

updateStore(s, id, updateData, t) ==
    LET existing == storeGetById(s, id)[1]
        swept == IF Truthy(updateData.isPrimary) /\ ~existing.isPrimary
                 THEN updateSweep(s, id, existing.productId, t)
                 ELSE s
    IN storeUpdate(swept, id,
         [ url          |-> updateData.url,
           caption      |-> CoalesceNullable(updateData.caption, existing.caption),
           isPrimary    |-> Coalesce(updateData.isPrimary, existing.isPrimary),
           displayOrder |-> Coalesce(updateData.displayOrder, existing.displayOrder),
           width        |-> Coalesce(updateData.width, existing.width),
           height       |-> Coalesce(updateData.height, existing.height),
           rotation     |-> Coalesce(rotationData(updateData.rotation), existing.rotation),
           dateModified |-> t ])

\* faulty variant: the record is looked up before the body is validated
productImageUpdateLookupFirst(id, body) ==
    IF ~paramsSchema(id)
    THEN /\ lastOp' = Result("update", id, "VALIDATION_ERROR")
         /\ UNCHANGED <<store, nextId, now>>
    ELSE IF storeGetById(store, id) = None
    THEN /\ lastOp' = Result("update", id, "NOT_FOUND")
         /\ UNCHANGED <<store, nextId, now>>
    ELSE IF ~updateSchema(body)
    THEN /\ lastOp' = Result("update", id, "VALIDATION_ERROR")
         /\ UNCHANGED <<store, nextId, now>>
    ELSE /\ store' = updateStore(store, id, body, now)
         /\ lastOp' = Result("update", id, "OK")
         /\ UNCHANGED <<nextId, now>>

productImageUpdate(id, body) ==
    IF ~paramsSchema(id) \/ ~updateSchema(body)
    THEN /\ lastOp' = Result("update", id, "VALIDATION_ERROR")
         /\ UNCHANGED <<store, nextId, now>>
    ELSE IF storeGetById(store, id) = None
    THEN /\ lastOp' = Result("update", id, "NOT_FOUND")
         /\ UNCHANGED <<store, nextId, now>>
    ELSE /\ store' = updateStore(store, id, body, now)
         /\ lastOp' = Result("update", id, "OK")
         /\ UNCHANGED <<nextId, now>>

\* faulty variant: the call is acknowledged but store.delete is never reached
productImageDeleteKept(id) ==
    IF ~paramsSchema(id)
    THEN /\ lastOp' = Result("delete", id, "VALIDATION_ERROR")
         /\ UNCHANGED <<store, nextId, now>>
    ELSE IF ~storeExists(store, id)
    THEN /\ lastOp' = Result("delete", id, "NOT_FOUND")
         /\ UNCHANGED <<store, nextId, now>>
    ELSE /\ lastOp' = Result("delete", id, "OK")
         /\ UNCHANGED <<store, nextId, now>>

\* faulty variant: deleting the primary record hands the flag to the first sibling left
productImageDeletePromote(id) ==
    IF ~paramsSchema(id)
    THEN /\ lastOp' = Result("delete", id, "VALIDATION_ERROR")
         /\ UNCHANGED <<store, nextId, now>>
    ELSE IF ~storeExists(store, id)
    THEN /\ lastOp' = Result("delete", id, "NOT_FOUND")
         /\ UNCHANGED <<store, nextId, now>>
    ELSE LET gone == storeGetById(store, id)[1]
             left == storeDelete(store, id)
             heirs == storeGetByProductId(left, gone.productId)
         IN /\ store' = IF gone.isPrimary /\ heirs # <<>>
                        THEN storeUpdate(left, heirs[1].id,
                                         [isPrimary |-> TRUE, dateModified |-> now])
                        ELSE left
            /\ lastOp' = Result("delete", id, "OK")
            /\ UNCHANGED <<nextId, now>>

productImageDelete(id) ==
    IF ~paramsSchema(id)
    THEN /\ lastOp' = Result("delete", id, "VALIDATION_ERROR")
         /\ UNCHANGED <<store, nextId, now>>
    ELSE IF ~storeExists(store, id)
    THEN /\ lastOp' = Result("delete", id, "NOT_FOUND")
         /\ UNCHANGED <<store, nextId, now>>
    ELSE /\ store' = storeDelete(store, id)
         /\ lastOp' = Result("delete", id, "OK")
         /\ UNCHANGED <<nextId, now>>

\* faulty variant: the siblings at or after the new position are shifted by one
reorderStoreShift(s, id, newOrder, t) ==
    LET target == storeGetById(s, id)[1]
    IN [i \in DOMAIN s |->
          IF s[i].id = id THEN [displayOrder |-> newOrder, dateModified |-> t] @@ s[i]
          ELSE IF s[i].productId = target.productId /\ s[i].displayOrder >= newOrder
          THEN [displayOrder |-> s[i].displayOrder + 1] @@ s[i]
          ELSE s[i]]

\* faulty variant: the new order is written without refreshing dateModified
reorderStoreKeepDate(s, id, newOrder, t) ==
    storeUpdate(s, id, [displayOrder |-> newOrder])

\* faulty variant: a new order of 0 is replaced by the next free order, as in create
reorderStoreAutoAssign(s, id, newOrder, t) ==
    LET siblings == storeGetByProductId(s, storeGetById(s, id)[1].productId)
        assigned == IF newOrder = 0
                    THEN MathMax([i \in DOMAIN siblings |-> siblings[i].displayOrder]) + 1
                    ELSE newOrder
    IN storeUpdate(s, id, [displayOrder |-> assigned, dateModified |-> t])

reorderStore(s, id, newOrder, t) ==
    storeUpdate(s, id, [displayOrder |-> newOrder, dateModified |-> t])

productImageReorder(id, body) ==
    IF ~paramsSchema(id) \/ ~reorderSchema(body)
    THEN /\ lastOp' = Result("reorder", id, "VALIDATION_ERROR")
         /\ UNCHANGED <<store, nextId, now>>
    ELSE IF storeGetById(store, id) = None
    THEN /\ lastOp' = Result("reorder", id, "NOT_FOUND")
         /\ UNCHANGED <<store, nextId, now>>
    ELSE /\ store' = reorderStore(store, id, body.newOrder, now)
         /\ lastOp' = Result("reorder", id, "OK")
         /\ UNCHANGED <<nextId, now>>

\* faulty variant: the siblings are swept but the flag of the target is never set
setPrimaryStoreSweepOnly(s, id, t) ==
    setPrimarySweep(s, id, storeGetById(s, id)[1].productId, t)

setPrimaryStore(s, id, t) ==
    LET existing == storeGetById(s, id)[1]
        swept == setPrimarySweep(s, id, existing.productId, t)
    IN storeUpdate(swept, id, [isPrimary |-> TRUE, dateModified |-> t])

\* faulty variant: an absent id is treated as nothing to do
productImageSetPrimaryLenient(id) ==
    IF ~paramsSchema(id)
    THEN /\ lastOp' = Result("setPrimary", id, "VALIDATION_ERROR")
         /\ UNCHANGED <<store, nextId, now>>
    ELSE IF storeGetById(store, id) = None
    THEN /\ lastOp' = Result("setPrimary", id, "OK")
         /\ UNCHANGED <<store, nextId, now>>
    ELSE /\ store' = setPrimaryStore(store, id, now)
         /\ lastOp' = Result("setPrimary", id, "OK")
         /\ UNCHANGED <<nextId, now>>

productImageSetPrimary(id) ==
    IF ~paramsSchema(id)
    THEN /\ lastOp' = Result("setPrimary", id, "VALIDATION_ERROR")
         /\ UNCHANGED <<store, nextId, now>>
    ELSE IF storeGetById(store, id) = None
    THEN /\ lastOp' = Result("setPrimary", id, "NOT_FOUND")
         /\ UNCHANGED <<store, nextId, now>>
    ELSE /\ store' = setPrimaryStore(store, id, now)
         /\ lastOp' = Result("setPrimary", id, "OK")
         /\ UNCHANGED <<nextId, now>>

\* ------------------------------------------------------- request domains
\* id parameters: 0 is malformed
IdParams == 0 .. MaxId

Body(productId, url, caption, isPrimary, displayOrder, width, height, angle) ==
    [ productId |-> productId, url |-> url, caption |-> caption, isPrimary |-> isPrimary,
      displayOrder |-> displayOrder, width |-> width, height |-> height,
      rotation |-> angle ]

OptBool == {None, Some(TRUE), Some(FALSE)}
OptOrder == {None} \cup {Some(n) : n \in OrderValues}

\* bodies that exercise the primary flag and the display order
CreateBodies ==
    {Body(p, "https://x/a.jpg", None, ip, d, None, None, None) :
        p \in Products, ip \in OptBool, d \in OptOrder}
    \cup {Body(0, "https://x/a.jpg", None, Some(TRUE), None, None, None, None),
          Body(9, "", None, Some(TRUE), None, None, None, None)}

UpdateBodies ==
    {Body(0, "https://x/a.jpg", None, ip, None, None, None, None) : ip \in OptBool}
    \cup {Body(0, "https://x/a.jpg", None, ip, Some(n), None, None, None) :
             ip \in {None, Some(TRUE)}, n \in OrderValues}
    \cup {Body(0, "", None, Some(TRUE), None, None, None, None)}

ReorderBodies == {[newOrder |-> n] : n \in OrderValues \cup {-1}}

Create == \E body \in CreateBodies :
             /\ createSchema(body) => nextId <= MaxId
             /\ productImageCreate(body)
             /\ UNCHANGED callVars
Get == \E id \in IdParams : productImageGet(id) /\ UNCHANGED callVars
Update == \E id \in IdParams, body \in UpdateBodies :
             productImageUpdate(id, body) /\ UNCHANGED callVars
Delete == \E id \in IdParams : productImageDelete(id) /\ UNCHANGED callVars
Reorder == \E id \in IdParams, body \in ReorderBodies :
              productImageReorder(id, body) /\ UNCHANGED callVars
SetPrimary == \E id \in IdParams : productImageSetPrimary(id) /\ UNCHANGED callVars

\* Engine calls issued at one instant: the handlers never branch on the clock,
\* so the flags and orders reachable do not depend on when the calls are made.
Next == Create \/ Get \/ Update \/ Delete \/ Reorder \/ SetPrimary

Spec == Init /\ [][Next]_vars

\* Engine calls of one product with time passing between them.
ClockCreateBodies ==
    {Body(9, "https://x/a.jpg", None, ip, None, None, None, None) : ip \in {None, Some(TRUE)}}
ClockUpdateBodies ==
    {Body(0, "https://x/b.jpg", None, ip, None, None, None, None) : ip \in {None, Some(TRUE)}}
ClockReorderBodies == {[newOrder |-> 7]}

ClockCreate == \E body \in ClockCreateBodies :
                  /\ nextId <= MaxId
                  /\ productImageCreate(body)
                  /\ UNCHANGED callVars
ClockUpdate == \E id \in IdParams, body \in ClockUpdateBodies :
                  productImageUpdate(id, body) /\ UNCHANGED callVars
ClockReorder == \E id \in IdParams, body \in ClockReorderBodies :
                   productImageReorder(id, body) /\ UNCHANGED callVars

NextClock == Tick \/ ClockCreate \/ ClockUpdate \/ Delete \/ ClockReorder \/ SetPrimary

SpecClock == Init /\ [][NextClock]_vars

\* Engine calls on the records of one product that vary every field of a record.
FieldsCreateBodies ==
    { Body(9, "https://x/a.jpg", None, None, None, None, None, None),
      Body(9, "https://x/a.jpg", Some("front"), Some(TRUE), Some(4), Some(640), Some(480),
           Some(RotStr("90"))),
      Body(9, "https://x/a.jpg", None, None, None, None, None, Some(RotNum("90"))),
      Body(9, "https://x/a.jpg", None, None, None, Some(0), None, None),
      Body(9, "https://x/a.jpg", None, None, None, None, None, Some(RotStr("45"))) }

FieldsUpdateBodies ==
    { Body(0, "https://x/b.jpg", None, None, None, None, None, None),
      Body(0, "https://x/b.jpg", Some("front"), None, None, None, None, None),
      Body(0, "https://x/b.jpg", Some(Null), None, None, None, None, None),
      Body(0, "https://x/b.jpg", None, Some(TRUE), None, None, None, None),
      Body(0, "https://x/b.jpg", None, Some(FALSE), None, None, None, None),
      Body(0, "https://x/b.jpg", None, None, Some(0), None, None, None),
      Body(0, "https://x/b.jpg", None, None, None, Some(640), None, None),
      Body(0, "https://x/b.jpg", None, None, None, None, Some(480), None),
      Body(0, "https://x/b.jpg", None, None, None, None, None, Some(RotStr("90"))),
      Body(0, "https://x/a.jpg", Some("front"), Some(TRUE), Some(4), Some(640), Some(480),
           Some(RotStr("90"))),
      Body(0, "https://x/b.jpg", None, None, None, None, None, Some(RotStr("45"))) }

FieldsCreate == \E body \in FieldsCreateBodies :
                   /\ createSchema(body) => nextId <= MaxFieldRecords
                   /\ productImageCreate(body)
                   /\ UNCHANGED callVars
FieldsUpdate == \E id \in 1 .. MaxFieldRecords, body \in FieldsUpdateBodies :
                   productImageUpdate(id, body) /\ UNCHANGED callVars

NextFields == FieldsCreate \/ FieldsUpdate

SpecFields == Init /\ [][NextFields]_vars

\* Engine calls that change which records a product has and how they are
\* ordered, with listings in between.
ListQueries == {None, Some(0)} \cup {Some(p) : p \in Products}
List == \E productId \in ListQueries : productImageList(productId) /\ UNCHANGED callVars

NextList == Create \/ Update \/ Delete \/ Reorder \/ List

SpecList == Init /\ [][NextList]_vars

\* ------------------------------------------- calls that may interleave
\* productImageCreate and productImageSetPrimary taken one storage call at a
\* time: every call of productImageStore is one step, and the steps of two
\* callers may alternate.  getByProductId hands the caller the records as they
\* are at that moment.  With `serialized` a call starts only when no other
\* call is in flight.
RaceCreateBodies ==
    {Body(9, "https://x/a.jpg", None, ip, None, None, None, None) : ip \in {None, Some(TRUE)}}
    \cup {Body(0, "https://x/a.jpg", None, Some(TRUE), None, None, None, None)}

Call(pc, op, id, params, productId, t, todo, displayOrder) ==
    [ pc |-> pc, op |-> op, id |-> id, params |-> params, productId |-> productId,
      t |-> t, todo |-> todo, displayOrder |-> displayOrder ]

MayStart(c) == calls[c] = Idle /\ (serialized => \A d \in Callers : calls[d] = Idle)

\* the images the forEach of productImageCreate updates
createSweepTargets(existingImages) ==
    SelectSeq(existingImages, LAMBDA img : img.isPrimary)
\* faulty variant: the forEach of productImageSetPrimary updates nothing
setPrimarySweepTargetsNone(existingImages, id) == <<>>
\* the images the forEach of productImageSetPrimary updates
setPrimarySweepTargets(existingImages, id) ==
    SelectSeq(existingImages, LAMBDA img : img.id # id /\ img.isPrimary)

\* productImageCreate: validation, `new Date()`, getNextId()
CreateGetNextId(c, body) ==
    /\ MayStart(c)
    /\ IF ~createSchema(body)
       THEN /\ lastOp' = Result("create", 0, "VALIDATION_ERROR")
            /\ UNCHANGED <<store, nextId, now, calls, serialized, galleryVars, requestVars, viewerVars>>
       ELSE /\ nextId <= MaxId
            /\ calls' = [calls EXCEPT ![c] =
                   Call(IF Truthy(body.isPrimary) THEN "createGetByProductId"
                                                  ELSE "createDisplayOrder",
                        "create", nextId, body, body.productId, now, <<>>, 0)]
            /\ nextId' = storeIdAfter(nextId)
            /\ UNCHANGED <<store, now, lastOp, serialized, galleryVars, requestVars, viewerVars>>

\* productImageCreate: getByProductId() of the sweep
CreateGetByProductId(c) ==
    /\ calls[c].pc = "createGetByProductId"
    /\ LET todo == createSweepTargets(storeGetByProductId(store, calls[c].productId))
       IN calls' = [calls EXCEPT ![c].todo = todo,
                                 ![c].pc = IF todo = <<>> THEN "createDisplayOrder"
                                                          ELSE "createForEach"]
    /\ UNCHANGED <<store, nextId, now, lastOp, serialized, galleryVars, requestVars, viewerVars>>

\* productImageCreate: one update() of the sweep
CreateForEach(c) ==
    /\ calls[c].pc = "createForEach"
    /\ store' = storeUpdate(store, Head(calls[c].todo).id,
                            [isPrimary |-> FALSE, dateModified |-> calls[c].t])
    /\ calls' = [calls EXCEPT ![c].todo = Tail(@),
                              ![c].pc = IF Tail(calls[c].todo) = <<>>
                                        THEN "createDisplayOrder" ELSE "createForEach"]
    /\ UNCHANGED <<nextId, now, lastOp, serialized, galleryVars, requestVars, viewerVars>>

\* productImageCreate: getByProductId() of the display order
CreateDisplayOrder(c) ==
    /\ calls[c].pc = "createDisplayOrder"
    /\ calls' = [calls EXCEPT ![c].displayOrder = createDisplayOrder(store, calls[c].params),
                              ![c].pc = "createAdd"]
    /\ UNCHANGED <<store, nextId, now, lastOp, serialized, galleryVars, requestVars, viewerVars>>

\* productImageCreate: add()
CreateAdd(c) ==
    /\ calls[c].pc = "createAdd"
    /\ store' = storeAdd(store,
                   [createdImage(store, calls[c].id, calls[c].params, calls[c].t)
                       EXCEPT !.displayOrder = calls[c].displayOrder])
    /\ lastOp' = Result("create", calls[c].id, "OK")
    /\ calls' = [calls EXCEPT ![c] = Idle]
    /\ UNCHANGED <<nextId, now, serialized, galleryVars, requestVars, viewerVars>>

\* productImageSetPrimary: validation, getById(), `new Date()`
SetPrimaryGetById(c, id) ==
    /\ MayStart(c)
    /\ IF ~paramsSchema(id)
       THEN /\ lastOp' = Result("setPrimary", id, "VALIDATION_ERROR")
            /\ UNCHANGED <<store, nextId, now, calls, serialized, galleryVars, requestVars, viewerVars>>
       ELSE IF storeGetById(store, id) = None
       THEN /\ lastOp' = Result("setPrimary", id, "NOT_FOUND")
            /\ UNCHANGED <<store, nextId, now, calls, serialized, galleryVars, requestVars, viewerVars>>
       ELSE /\ calls' = [calls EXCEPT ![c] =
                   Call("setPrimaryGetByProductId", "setPrimary", id, None,
                        storeGetById(store, id)[1].productId, now, <<>>, 0)]
            /\ UNCHANGED <<store, nextId, now, lastOp, serialized, galleryVars, requestVars, viewerVars>>

\* productImageSetPrimary: getByProductId() of the sweep
SetPrimaryGetByProductId(c) ==
    /\ calls[c].pc = "setPrimaryGetByProductId"
    /\ LET todo == setPrimarySweepTargets(storeGetByProductId(store, calls[c].productId),
                                          calls[c].id)
       IN calls' = [calls EXCEPT ![c].todo = todo,
                                 ![c].pc = IF todo = <<>> THEN "setPrimaryUpdate"
                                                          ELSE "setPrimaryForEach"]
    /\ UNCHANGED <<store, nextId, now, lastOp, serialized, galleryVars, requestVars, viewerVars>>

\* productImageSetPrimary: one update() of the sweep
SetPrimaryForEach(c) ==
    /\ calls[c].pc = "setPrimaryForEach"
    /\ store' = storeUpdate(store, Head(calls[c].todo).id,
                            [isPrimary |-> FALSE, dateModified |-> calls[c].t])
    /\ calls' = [calls EXCEPT ![c].todo = Tail(@),
                              ![c].pc = IF Tail(calls[c].todo) = <<>>
                                        THEN "setPrimaryUpdate" ELSE "setPrimaryForEach"]
    /\ UNCHANGED <<nextId, now, lastOp, serialized, galleryVars, requestVars, viewerVars>>

\* productImageSetPrimary: the update() that sets the flag
SetPrimaryUpdate(c) ==
    /\ calls[c].pc = "setPrimaryUpdate"
    /\ store' = storeUpdate(store, calls[c].id,
                            [isPrimary |-> TRUE, dateModified |-> calls[c].t])
    /\ lastOp' = Result("setPrimary", calls[c].id, "OK")
    /\ calls' = [calls EXCEPT ![c] = Idle]
    /\ UNCHANGED <<nextId, now, serialized, galleryVars, requestVars, viewerVars>>

\* the run is made either with the external lock or without it
InitRace ==
    /\ store = <<>>
    /\ nextId = 1
    /\ now = 0
    /\ lastOp = Result("none", 0, "OK")
    /\ calls = [c \in Callers |-> Idle]
    /\ serialized \in BOOLEAN
    /\ InitGallery

NextRace ==
    \/ \E c \in Callers, body \in RaceCreateBodies : CreateGetNextId(c, body)
    \/ \E c \in Callers : CreateGetByProductId(c)
    \/ \E c \in Callers : CreateForEach(c)
    \/ \E c \in Callers : CreateDisplayOrder(c)
    \/ \E c \in Callers : CreateAdd(c)
    \/ \E c \in Callers, id \in IdParams : SetPrimaryGetById(c, id)
    \/ \E c \in Callers : SetPrimaryGetByProductId(c)
    \/ \E c \in Callers : SetPrimaryForEach(c)
    \/ \E c \in Callers : SetPrimaryUpdate(c)

SpecRace == InitRace /\ [][NextRace]_vars

\* --------------------------------------------------- the gallery controller
\* useProductImageGallery: every callback of the hook is one step; the state
\* updates of one callback are applied together, and a callback sees the list
\* of the last render.
engineVars == <<store, nextId, now, lastOp, calls, serialized>>

\* JavaScript `a % n`: the remainder has the sign of the dividend
jsRem(a, n) == IF a >= 0 THEN a % n ELSE -((-a) % n)
\* Math.min(...xs) of a non-empty sequence
MathMin(xs) == CHOOSE m \in {xs[i] : i \in DOMAIN xs} : \A j \in DOMAIN xs : m <= xs[j]

Called(op) == [op |-> op, from |-> currentIndex, zoom |-> zoomLevel, angle |-> rotation]

\* `images?.[currentIndex]`: undefined (None) when the index is outside the list
currentImage ==
    IF currentIndex + 1 \in DOMAIN images THEN Some(images[currentIndex + 1]) ELSE None

\* the data of the list query arrives: the ids of the n images listed
queryData(n) ==
    /\ images' = [i \in 1 .. n |-> i]
    /\ lastCall' = Called("query")
    /\ UNCHANGED <<currentIndex, zoomLevel, rotation, isFullscreen, engineVars, requestVars>>

\* faulty variant: the index wraps only from exactly the last position
goToNextWrapAtEnd ==
    /\ IF Len(images) = 0
       THEN UNCHANGED <<currentIndex, zoomLevel, rotation>>
       ELSE /\ currentIndex' = IF currentIndex + 1 = Len(images) THEN 0 ELSE currentIndex + 1
            /\ zoomLevel' = 10
            /\ rotation' = 0
    /\ lastCall' = Called("goToNext")
    /\ UNCHANGED <<images, isFullscreen, engineVars, requestVars>>

goToNext ==
    /\ IF Len(images) = 0
       THEN UNCHANGED <<currentIndex, zoomLevel, rotation>>
       ELSE /\ currentIndex' = jsRem(currentIndex + 1, Len(images))
            /\ zoomLevel' = 10
            /\ rotation' = 0
    /\ lastCall' = Called("goToNext")
    /\ UNCHANGED <<images, isFullscreen, engineVars, requestVars>>

\* faulty variant: the list length is not added before the remainder is taken
goToPreviousNoWrap ==
    /\ IF Len(images) = 0
       THEN UNCHANGED <<currentIndex, zoomLevel, rotation>>
       ELSE /\ currentIndex' = jsRem(currentIndex - 1, Len(images))
            /\ zoomLevel' = 10
            /\ rotation' = 0
    /\ lastCall' = Called("goToPrevious")
    /\ UNCHANGED <<images, isFullscreen, engineVars, requestVars>>

goToPrevious ==
    /\ IF Len(images) = 0
       THEN UNCHANGED <<currentIndex, zoomLevel, rotation>>
       ELSE /\ currentIndex' = jsRem(currentIndex - 1 + Len(images), Len(images))
            /\ zoomLevel' = 10
            /\ rotation' = 0
    /\ lastCall' = Called("goToPrevious")
    /\ UNCHANGED <<images, isFullscreen, engineVars, requestVars>>

\* faulty variant: the jump resets the zoom and forgets the rotation
goToImageKeepRotation(index) ==
    /\ currentIndex' = index
    /\ zoomLevel' = 10
    /\ lastCall' = Called("goToImage")
    /\ UNCHANGED <<rotation, images, isFullscreen, engineVars, requestVars>>

goToImage(index) ==
    /\ currentIndex' = index
    /\ zoomLevel' = 10
    /\ rotation' = 0
    /\ lastCall' = Called("goToImage")
    /\ UNCHANGED <<images, isFullscreen, engineVars, requestVars>>

\* faulty variant: the step is added without the upper clamp
zoomInNoClamp ==
    /\ zoomLevel' = zoomLevel + 5
    /\ lastCall' = Called("zoomIn")
    /\ UNCHANGED <<images, currentIndex, rotation, isFullscreen, engineVars, requestVars>>

zoomIn ==
    /\ zoomLevel' = MathMin(<<zoomLevel + 5, 30>>)
    /\ lastCall' = Called("zoomIn")
    /\ UNCHANGED <<images, currentIndex, rotation, isFullscreen, engineVars, requestVars>>

zoomOut ==
    /\ zoomLevel' = MathMax(<<zoomLevel - 5, 10>>)
    /\ lastCall' = Called("zoomOut")
    /\ UNCHANGED <<images, currentIndex, rotation, isFullscreen, engineVars, requestVars>>

resetZoom ==
    /\ zoomLevel' = 10
    /\ lastCall' = Called("resetZoom")
    /\ UNCHANGED <<images, currentIndex, rotation, isFullscreen, engineVars, requestVars>>

\* faulty variant: the quarter turn is added without the remainder
rotateUpdaterNoWrap(prev) == prev + 90
\* the updater of setRotation in rotateImage
rotateUpdater(prev) == jsRem(prev + 90, 360)

\* faulty variant: the new angle is also written to the record of the image shown
rotateImagePersists ==
    /\ rotation' = rotateUpdater(rotation)
    /\ lastCall' = Called("rotateImage")
    /\ store' = IF currentImage # None
                THEN storeUpdate(store, currentImage[1].id,
                                 [rotation |-> rotateUpdater(rotation)])
                ELSE store
    /\ UNCHANGED <<images, currentIndex, zoomLevel, isFullscreen, nextId, now, lastOp, calls,
                   serialized, requestVars>>

rotateImage ==
    /\ rotation' = rotateUpdater(rotation)
    /\ lastCall' = Called("rotateImage")
    /\ UNCHANGED <<images, currentIndex, zoomLevel, isFullscreen, engineVars, requestVars>>

toggleFullscreen ==
    /\ isFullscreen' = ~isFullscreen
    /\ lastCall' = Called("toggleFullscreen")
    /\ UNCHANGED <<images, currentIndex, zoomLevel, rotation, engineVars, requestVars>>

\* the index arguments of goToImage: thumbnails and keys pass 0 .. length - 1,
\* the callback itself takes any number
IndexArgs == -1 .. MaxImages

\* the hook alone: the component around it stays as it is
NextGallery ==
    \/ \E n \in 0 .. MaxImages : queryData(n) /\ UNCHANGED viewerVars
    \/ goToNext /\ UNCHANGED viewerVars
    \/ goToPrevious /\ UNCHANGED viewerVars
    \/ \E index \in IndexArgs : goToImage(index) /\ UNCHANGED viewerVars
    \/ zoomIn /\ UNCHANGED viewerVars
    \/ zoomOut /\ UNCHANGED viewerVars
    \/ resetZoom /\ UNCHANGED viewerVars
    \/ rotateImage /\ UNCHANGED viewerVars
    \/ toggleFullscreen /\ UNCHANGED viewerVars

SpecGallery == Init /\ [][NextGallery]_vars

\* ------------------------------------------------ the gallery component
\* ProductImageGallery renders the hook.  One step is one DOM event: the
\* handler runs, React renders, and the effects whose dependencies changed run
\* before the next event is handled.

\* window.removeEventListener: the first registration of this handler goes
removeEventListener(ls, h) ==
    IF \E i \in DOMAIN ls : ls[i] = h
    THEN LET i == CHOOSE k \in DOMAIN ls : ls[k] = h /\ \A j \in 1 .. k - 1 : ls[j] # h
         IN SubSeq(ls, 1, i - 1) \o SubSeq(ls, i + 1, Len(ls))
    ELSE ls

\* faulty variant: the effect registers the new handler and returns no cleanup
keyDownEffectNoCleanup ==
    listeners' =
        IF <<Len(images'), isFullscreen'>> # <<Len(images), isFullscreen>>
        THEN Append(listeners, [length |-> Len(images'), isFullscreen |-> isFullscreen'])
        ELSE listeners

\* the key-down effect of the hook.  Of its dependencies goToImage and
\* toggleFullscreen never change and goToNext and goToPrevious change with
\* images?.length, so it re-runs when the list length or isFullscreen changed:
\* the cleanup removes the handler of the last run, then the new one is added
keyDownEffect ==
    listeners' =
        IF <<Len(images'), isFullscreen'>> # <<Len(images), isFullscreen>>
        THEN Append(removeEventListener(listeners,
                        [length |-> Len(images), isFullscreen |-> isFullscreen]),
                    [length |-> Len(images'), isFullscreen |-> isFullscreen'])
        ELSE listeners

\* the effect of the component on [zoomLevel, currentIndex]; pos is the pan
\* offset the handler left
resetPositionEffect(pos) ==
    imagePosition' =
        IF <<zoomLevel', currentIndex'>> # <<zoomLevel, currentIndex>> /\ zoomLevel' = 10
        THEN [x |-> 0, y |-> 0]
        ELSE pos

\* the rest of a step whose handler is a callback of the hook: the event is
\* noted, the component renders and the two effects run
handled(type, key) ==
    /\ event' = [type |-> type, key |-> key]
    /\ resetPositionEffect(imagePosition)
    /\ keyDownEffect
    /\ UNCHANGED <<isDragging, dragStart, mounted>>

Keys == {"ArrowLeft", "ArrowRight", "Home", "End", "Escape", "a"}

\* faulty variant: Escape toggles fullscreen whatever isFullscreen is
handleKeyDownEscapeToggles(l, key) ==
    IF key = "ArrowLeft" THEN goToPrevious
    ELSE IF key = "ArrowRight" THEN goToNext
    ELSE IF key = "Home" THEN goToImage(0)
    ELSE IF key = "End" /\ l.length # 0 THEN goToImage(l.length - 1)
    ELSE IF key = "Escape" THEN toggleFullscreen
    ELSE UNCHANGED <<galleryVars, engineVars, requestVars>>

\* the listener l of the key-down effect; l.length and l.isFullscreen are the
\* `images?.length` and `isFullscreen` of the render that registered it
handleKeyDown(l, key) ==
    IF key = "ArrowLeft" THEN goToPrevious
    ELSE IF key = "ArrowRight" THEN goToNext
    ELSE IF key = "Home" THEN goToImage(0)
    ELSE IF key = "End" /\ l.length # 0 THEN goToImage(l.length - 1)
    ELSE IF key = "Escape" /\ l.isFullscreen THEN toggleFullscreen
    ELSE UNCHANGED <<galleryVars, engineVars, requestVars>>

\* the component is removed: the cleanup of the key-down effect runs and the
\* state of the hook instance and of the component is gone
Unmount ==
    /\ mounted
    /\ mounted' = FALSE
    /\ listeners' = removeEventListener(listeners,
                        [length |-> Len(images), isFullscreen |-> isFullscreen])
    /\ images' = <<>>
    /\ currentIndex' = 0
    /\ zoomLevel' = 10
    /\ rotation' = 0
    /\ isFullscreen' = FALSE
    /\ lastCall' = [op |-> "none", from |-> 0, zoom |-> 10, angle |-> 0]
    /\ isDragging' = FALSE
    /\ dragStart' = [x |-> 0, y |-> 0]
    /\ imagePosition' = [x |-> 0, y |-> 0]
    /\ event' = [type |-> "unmount", key |-> ""]
    /\ UNCHANGED <<engineVars, requestVars>>

\* the component is rendered again: a new hook instance with its initial
\* state, whose effects run once
Mount ==
    /\ ~mounted
    /\ mounted' = TRUE
    /\ listeners' = Append(listeners, [length |-> Len(images), isFullscreen |-> isFullscreen])
    /\ event' = [type |-> "mount", key |-> ""]
    /\ UNCHANGED <<galleryVars, engineVars, requestVars, isDragging, dragStart, imagePosition>>

\* the key-down events, with the other events that change what the listener
\* depends on: the list data, the fullscreen button, zoom and rotation
NextViewer ==
    \/ \E n \in 0 .. MaxImages : mounted /\ queryData(n) /\ handled("data", "")
    \/ \E key \in Keys, i \in DOMAIN listeners :
          handleKeyDown(listeners[i], key) /\ handled("keydown", key)
    \/ mounted /\ Len(images) > 0 /\ toggleFullscreen /\ handled("click", "fullscreen")
    \/ mounted /\ Len(images) > 0 /\ zoomLevel < 30 /\ zoomIn /\ handled("click", "zoomIn")
    \/ mounted /\ Len(images) > 0 /\ rotateImage /\ handled("click", "rotate")
    \/ Unmount
    \/ Mount

SpecViewer == Init /\ [][NextViewer]_vars

\* the mouse positions (clientX, clientY) of the events
Points == {[x |-> 0, y |-> 0], [x |-> 1, y |-> 2]}
\* the pan offsets followed: each coordinate within -MaxPan .. MaxPan
MaxPan == 4

handleMouseDown(e) ==
    /\ IF zoomLevel > 10
       THEN /\ isDragging' = TRUE
            /\ dragStart' = [x |-> e.x - imagePosition.x, y |-> e.y - imagePosition.y]
       ELSE UNCHANGED <<isDragging, dragStart>>
    /\ event' = [type |-> "mousedown", key |-> ""]
    /\ UNCHANGED <<imagePosition, listeners, mounted, galleryVars, engineVars, requestVars>>

\* faulty variant: the move pans whatever the zoom level is
handleMouseMoveAnyZoom(e) ==
    /\ IF isDragging
       THEN imagePosition' = [x |-> e.x - dragStart.x, y |-> e.y - dragStart.y]
       ELSE UNCHANGED imagePosition
    /\ event' = [type |-> "mousemove", key |-> ""]
    /\ UNCHANGED <<isDragging, dragStart, listeners, mounted, galleryVars, engineVars, requestVars>>

handleMouseMove(e) ==
    /\ IF isDragging /\ zoomLevel > 10
       THEN imagePosition' = [x |-> e.x - dragStart.x, y |-> e.y - dragStart.y]
       ELSE UNCHANGED imagePosition
    /\ event' = [type |-> "mousemove", key |-> ""]
    /\ UNCHANGED <<isDragging, dragStart, listeners, mounted, galleryVars, engineVars, requestVars>>

\* onMouseUp and onMouseLeave
handleMouseUp ==
    /\ isDragging' = FALSE
    /\ event' = [type |-> "mouseup", key |-> ""]
    /\ UNCHANGED <<dragStart, imagePosition, listeners, mounted, galleryVars, engineVars, requestVars>>

handleImageClick ==
    IF zoomLevel = 10
    THEN zoomIn
    ELSE UNCHANGED <<galleryVars, engineVars, requestVars>>

\* the main image area and its buttons are rendered
rendered == mounted /\ Len(images) > 0

\* the mouse on the image, with the events that change the zoom level and the
\* index: the zoom buttons, the next button, the thumbnails, the arrow keys
NextPan ==
    \/ \E n \in 0 .. MaxImages : mounted /\ queryData(n) /\ handled("data", "")
    \/ \E e \in Points : rendered /\ handleMouseDown(e)
    \/ \E e \in Points :
          /\ rendered /\ handleMouseMove(e)
          /\ imagePosition'.x \in -MaxPan .. MaxPan /\ imagePosition'.y \in -MaxPan .. MaxPan
    \/ rendered /\ handleMouseUp
    \/ rendered /\ handleImageClick /\ handled("click", "image")
    \/ rendered /\ zoomLevel < 30 /\ zoomIn /\ handled("click", "zoomIn")
    \/ rendered /\ zoomLevel > 10 /\ zoomOut /\ handled("click", "zoomOut")
    \/ rendered /\ Len(images) > 1 /\ goToNext /\ handled("click", "next")
    \/ \E index \in 0 .. Len(images) - 1 :
          /\ rendered /\ ~isFullscreen /\ Len(images) > 1
          /\ goToImage(index) /\ handled("click", "thumbnail")
    \/ \E key \in {"ArrowLeft", "End"}, i \in DOMAIN listeners :
          handleKeyDown(listeners[i], key) /\ handled("keydown", key)

SpecPan == Init /\ [][NextPan]_vars

\* ------------------------------------------- the controller and the engine
\* The hook of the gallery of one product, talking to the engine over HTTP
\* while other clients call the engine too.  A request is served by the engine
\* in one step and its answer is delivered to the hook in a later one.  One
\* mutation of the hook is followed at a time.

\* the `productId` option of the hook
galleryProductId == 7

\* queryFn: productImageService.list({ productId }) is served by the engine
queryFn ==
    /\ query.status = "stale"
    /\ productImageList(Some(galleryProductId))
    /\ query' = [status |-> "fetching",
                 data |-> productImageListOf(store, Some(galleryProductId))]
    /\ UNCHANGED <<calls, serialized, galleryVars, mutation, viewerVars>>

\* the answer of the list request arrives and becomes `images`
querySuccess ==
    /\ query.status = "fetching"
    /\ images' = query.data
    /\ query' = [status |-> "fresh", data |-> <<>>]
    /\ UNCHANGED <<currentIndex, zoomLevel, rotation, isFullscreen, lastCall, engineVars,
                   mutation, viewerVars>>

\* faulty variant: the flag is moved in the local list when the call is made
setPrimaryOptimistic(id) ==
    /\ mutation.status \notin {"pending", "answered"}
    /\ mutation' = [status |-> "pending", op |-> "setPrimary", id |-> id, newOrder |-> 0,
                    answer |-> "none"]
    /\ images' = [i \in DOMAIN images |-> [images[i] EXCEPT !.isPrimary = (images[i].id = id)]]
    /\ UNCHANGED <<currentIndex, zoomLevel, rotation, isFullscreen, lastCall, engineVars,
                   query, viewerVars>>

\* setPrimary of the hook: the request of setPrimaryMutation leaves
setPrimary(id) ==
    /\ mutation.status \notin {"pending", "answered"}
    /\ mutation' = [status |-> "pending", op |-> "setPrimary", id |-> id, newOrder |-> 0,
                    answer |-> "none"]
    /\ UNCHANGED <<galleryVars, engineVars, query, viewerVars>>

\* reorderImage of the hook: the request of reorderMutation leaves
reorderImage(id, newOrder) ==
    /\ mutation.status \notin {"pending", "answered"}
    /\ mutation' = [status |-> "pending", op |-> "reorder", id |-> id, newOrder |-> newOrder,
                    answer |-> "none"]
    /\ UNCHANGED <<galleryVars, engineVars, query, viewerVars>>

\* mutationFn: productImageService.setPrimary(id) or .reorder(id, { newOrder })
\* is served by the engine
mutationFn ==
    /\ mutation.status = "pending"
    /\ IF mutation.op = "setPrimary"
       THEN productImageSetPrimary(mutation.id)
       ELSE productImageReorder(mutation.id, [newOrder |-> mutation.newOrder])
    /\ mutation' = [mutation EXCEPT !.status = "answered", !.answer = lastOp'.status]
    /\ UNCHANGED <<calls, serialized, galleryVars, query, viewerVars>>

\* faulty variant: the query is invalidated whether the call succeeded or not
mutationSettledInvalidates ==
    /\ mutation.status = "answered"
    /\ mutation' = [status |-> IF mutation.answer = "OK" THEN "success" ELSE "error",
                    op |-> "none", id |-> 0, newOrder |-> 0, answer |-> mutation.answer]
    /\ query' = [status |-> "stale", data |-> <<>>]
    /\ UNCHANGED <<engineVars, galleryVars, viewerVars>>

\* the answer arrives.  On success onSuccess invalidates the list query (a fetch
\* under way is dropped and a new one is due) and the promise resolves; on
\* failure the promise of mutateAsync rejects with the error received
mutationSettled ==
    /\ mutation.status = "answered"
    /\ IF mutation.answer = "OK"
       THEN /\ mutation' = [status |-> "success", op |-> "none", id |-> 0, newOrder |-> 0,
                            answer |-> mutation.answer]
            /\ query' = [status |-> "stale", data |-> <<>>]
       ELSE /\ mutation' = [status |-> "error", op |-> "none", id |-> 0, newOrder |-> 0,
                            answer |-> mutation.answer]
            /\ UNCHANGED query
    /\ UNCHANGED <<engineVars, galleryVars, viewerVars>>

\* what the other clients create while the gallery is open: an image of the
\* product shown, stored with a rotation of 90, and an image of another product
ControllerCreateBodies ==
    {Body(galleryProductId, "https://x/a.jpg", None, None, None, None, None,
          Some(RotStr("90"))),
     Body(9, "https://x/a.jpg", None, None, None, None, None, None)}

NextController ==
    \/ \E body \in ControllerCreateBodies :
          nextId <= MaxId /\ productImageCreate(body) /\ UNCHANGED callVars
    \/ queryFn
    \/ querySuccess
    \/ \E id \in IdParams : setPrimary(id)
    \/ \E id \in 1 .. MaxId : reorderImage(id, 4)
    \/ mutationFn
    \/ mutationSettled
    \/ rotateImage /\ UNCHANGED viewerVars

SpecController == Init /\ [][NextController]_vars

\* ---------------------------------------------------------------- claims
Records(s) == {s[i] : i \in DOMAIN s}
Primaries(s, productId) == {r \in Records(s) : r.productId = productId /\ r.isPrimary}
Siblings(s, r) == {q \in Records(s) : q.productId = r.productId /\ q.id # r.id}
RecordOf(s, id) == CHOOSE r \in Records(s) : r.id = id
Succeeded(op) == lastOp.op = op /\ lastOp.status = "OK"
\* the step answers a call of op with this status; lastOp'.id is then the id the
\* call was addressed to (for create, the id of the new record)
Answered(op, status) == lastOp'.op = op /\ lastOp'.status = status

\* C1: whatever engine calls were made, no product has two stored records
\* flagged isPrimary.
C1_AtMostOnePrimary ==
    \A p \in Products : Cardinality(Primaries(store, p)) <= 1

\* a primary record was just made next to a sibling that is not primary
C1_Witness ==
    /\ lastOp.status = "OK" /\ lastOp.op \in {"create", "update", "setPrimary"}
    /\ \E r \in Records(store) :
          /\ r.id = lastOp.id /\ r.isPrimary
          /\ \E q \in Siblings(store, r) : ~q.isPrimary

\* C2: right after a successful setPrimary(id) the record id is primary and
\* every other record of its product is not.
C2_SetPrimaryPost ==
    Succeeded("setPrimary") =>
        /\ storeExists(store, lastOp.id)
        /\ RecordOf(store, lastOp.id).isPrimary
        /\ \A q \in Siblings(store, RecordOf(store, lastOp.id)) : ~q.isPrimary

\* the scenario of the spec: images 1 and 2 of product 9, setPrimary(1) was the
\* last call, 1 is primary and 2 is not
C2_Witness ==
    /\ lastOp = Result("setPrimary", 1, "OK")
    /\ Len(store) = 2
    /\ store[1].id = 1 /\ store[1].productId = 9 /\ store[1].isPrimary
    /\ store[2].id = 2 /\ store[2].productId = 9 /\ ~store[2].isPrimary

\* C3: a create with isPrimary = true for a product that has a primary record
\* leaves the new record as the only primary of the product, and the former
\* primary carries the time of the create call as dateModified.
C3_CreatePrimaryDemotes ==
    [][Answered("create", "OK") =>
         \A body \in ClockCreateBodies :
            ( /\ productImageCreate(body)
              /\ Truthy(body.isPrimary)
              /\ Primaries(store, body.productId) # {} )
            => /\ Primaries(store', body.productId) = {RecordOf(store', nextId)}
               /\ \A old \in Primaries(store, body.productId) :
                     /\ storeExists(store', old.id)
                     /\ ~RecordOf(store', old.id).isPrimary
                     /\ RecordOf(store', old.id).dateModified = now
       ]_vars

\* image 2 was just created as primary at a later instant than image 1, which
\* lost the flag at that instant
C3_Witness ==
    /\ lastOp = Result("create", 2, "OK")
    /\ Len(store) = 2
    /\ store[2].isPrimary /\ store[2].dateCreated = now
    /\ store[1].productId = store[2].productId
    /\ ~store[1].isPrimary
    /\ store[1].dateCreated < now /\ store[1].dateModified = now

\* C4: a successful update whose body has isPrimary = true leaves the target
\* primary and every other record of its product not primary, whether the
\* target was primary before or not.
C4_UpdatePrimaryPost ==
    [][Answered("update", "OK") =>
         \A body \in UpdateBodies :
            (Truthy(body.isPrimary) /\ productImageUpdate(lastOp'.id, body))
            => /\ RecordOf(store', lastOp'.id).isPrimary
               /\ \A q \in Siblings(store', RecordOf(store', lastOp'.id)) : ~q.isPrimary
       ]_vars

\* an update has just left its target primary next to a sibling that is not
C4_Witness ==
    /\ Succeeded("update")
    /\ \E r \in Records(store) :
          /\ r.id = lastOp.id /\ r.isPrimary
          /\ Siblings(store, r) # {}
          /\ \A q \in Siblings(store, r) : ~q.isPrimary

\* the display orders of the records of a product
OrdersOf(s, productId) == {r.displayOrder : r \in {q \in Records(s) : q.productId = productId}}
SetMax(S) == CHOOSE m \in S : \A x \in S : x <= m

ValidCallOn(id) ==
    \/ productImageGet(id)
    \/ productImageDelete(id)
    \/ productImageSetPrimary(id)
    \/ \E body \in UpdateBodies : updateSchema(body) /\ productImageUpdate(id, body)
    \/ \E body \in ReorderBodies : reorderSchema(body) /\ productImageReorder(id, body)

\* the step is a call of update or reorder on id with a body the schema rejects
InvalidCallOn(id) ==
    \/ \E body \in UpdateBodies : ~updateSchema(body) /\ productImageUpdate(id, body)
    \/ \E body \in ReorderBodies : ~reorderSchema(body) /\ productImageReorder(id, body)

\* a call on id writes nothing and does not succeed; it ends with NOT_FOUND
\* unless the body of an update or reorder is rejected first
RejectsAbsent(id) ==
    /\ ValidCallOn(id) => (lastOp'.status = "NOT_FOUND" /\ store' = store)
    /\ InvalidCallOn(id) => (lastOp'.status = "VALIDATION_ERROR" /\ store' = store)

\* C6: get, update, delete, reorder and setPrimary, called with a well-formed
\* id that is not in the store, end with NOT_FOUND and leave the store as it
\* was; no such call succeeds.  (update and reorder are taken with a body that
\* passes their schema: a rejected body ends the call with VALIDATION_ERROR
\* before the id is looked up, the store unchanged.)
C6_AbsentIdNotFound ==
    [][(paramsSchema(lastOp'.id) /\ ~storeExists(store, lastOp'.id))
         => RejectsAbsent(lastOp'.id)
       ]_vars

\* a call on an id that was never handed out has just failed with NOT_FOUND
\* while the store holds records
C6_Witness ==
    /\ lastOp.status = "NOT_FOUND"
    /\ lastOp.op \in {"update", "reorder", "setPrimary"}
    /\ lastOp.id >= nextId
    /\ store # <<>>

\* C7: a successful delete(id) leaves exists(id) false and get(id) failing with
\* NOT_FOUND; an id that was handed out and is gone never comes back, and every
\* later get, update, reorder, setPrimary or delete on it ends with NOT_FOUND
\* (update and reorder taken with a body that passes their schema, as in C6).
C7_DeleteIsFinal ==
    [][ /\ (Answered("delete", "OK") /\ productImageDelete(lastOp'.id))
            => /\ ~storeExists(store', lastOp'.id)
               /\ getOutcome(store', lastOp'.id).status = "NOT_FOUND"
        /\ \A id \in 1 .. MaxId :
              (id < nextId /\ ~storeExists(store, id))
              => /\ ~storeExists(store', id)
                 /\ lastOp'.id = id => RejectsAbsent(id)
      ]_vars

\* a call on an id that was handed out and deleted has just failed with
\* NOT_FOUND, after a later record was created
C7_Witness ==
    /\ lastOp.status = "NOT_FOUND"
    /\ lastOp.id >= 1 /\ lastOp.id < nextId
    /\ ~storeExists(store, lastOp.id)
    /\ \E r \in Records(store) : r.id > lastOp.id

\* C8: a successful delete(id) removes that record and nothing else: the other
\* records are unchanged and in the same order, so a product whose primary
\* record is deleted is left without a primary record.
C8_DeleteFrame ==
    [][(Answered("delete", "OK") /\ productImageDelete(lastOp'.id))
         => LET gone == RecordOf(store, lastOp'.id)
            IN /\ Records(store') = Records(store) \ {gone}
               /\ Len(store') = Len(store) - 1
               /\ \A i, j \in DOMAIN store' :
                     i < j => store'[i].id < store'[j].id
               /\ gone.isPrimary => Primaries(store', gone.productId) = {}
       ]_vars

\* a record was just deleted; a record that was created as the second of its
\* product remains, and the product has no primary record
C8_Witness ==
    /\ Succeeded("delete")
    /\ \E r \in Records(store) :
          /\ r.id # lastOp.id
          /\ r.displayOrder = 2
          /\ Primaries(store, r.productId) = {}

\* the fields reorder must leave alone
SameButOrder(r, q) ==
    [displayOrder |-> 0, dateModified |-> 0] @@ r = [displayOrder |-> 0, dateModified |-> 0] @@ q

\* C9: after a successful reorder(id, n), get(id) returns displayOrder = n even
\* when a sibling holds the same value, and no record differs from before except
\* the target in displayOrder and dateModified.
C9_ReorderPost ==
    [][Answered("reorder", "OK") =>
         \A body \in ReorderBodies :
            productImageReorder(lastOp'.id, body)
            => /\ getOutcome(store', lastOp'.id).status = "OK"
               /\ getOutcome(store', lastOp'.id).data[1].displayOrder = body.newOrder
               /\ Len(store') = Len(store)
               /\ \A i \in DOMAIN store :
                     IF store[i].id = lastOp'.id
                     THEN SameButOrder(store'[i], store[i])
                     ELSE store'[i] = store[i]
       ]_vars

\* a reorder has just put its target on the order a sibling already holds
C9_Witness ==
    /\ Succeeded("reorder")
    /\ \E r \in Records(store) :
          /\ r.id = lastOp.id
          /\ \E q \in Siblings(store, r) : q.displayOrder = r.displayOrder

\* C10: a successful update replaces url by the url of the body and keeps the
\* stored value of every optional field (caption, isPrimary, displayOrder,
\* width, height, rotation) that the body does not specify.
C10_PartialUpdate ==
    [][Answered("update", "OK") =>
         \A body \in FieldsUpdateBodies :
            productImageUpdate(lastOp'.id, body)
            => LET old == RecordOf(store, lastOp'.id)
                   new == RecordOf(store', lastOp'.id)
               IN /\ new.url = body.url
                  /\ body.caption = None => new.caption = old.caption
                  /\ body.isPrimary = None => new.isPrimary = old.isPrimary
                  /\ body.displayOrder = None => new.displayOrder = old.displayOrder
                  /\ body.width = None => new.width = old.width
                  /\ body.height = None => new.height = old.height
                  /\ body.rotation = None => new.rotation = old.rotation
       ]_vars

\* an update has just replaced the url of a record whose other fields still
\* hold the non-default values it was created with
C10_Witness ==
    /\ Succeeded("update")
    /\ \E r \in Records(store) :
          /\ r.id = lastOp.id
          /\ r.url = "https://x/b.jpg"
          /\ r.caption = "front" /\ r.isPrimary /\ r.displayOrder = 4
          /\ r.width = 640 /\ r.height = 480 /\ r.rotation = 90

\* every stored record was modified no earlier than it was created
DatesOrdered(s) == \A r \in Records(s) : r.dateModified >= r.dateCreated

\* C11: with a clock that never runs backwards, every stored record has
\* dateModified >= dateCreated, no call changes the dateCreated of a record that
\* stays in the store, and a successful update, reorder or setPrimary leaves the
\* time of the call in the dateModified of its target.
C11_Dates ==
    /\ []DatesOrdered(store)
    /\ [][
          /\ \A r \in Records(store) :
                storeExists(store', r.id)
                => RecordOf(store', r.id).dateCreated = r.dateCreated
          /\ (lastOp'.status = "OK" /\ lastOp'.op \in {"update", "reorder", "setPrimary"})
                => RecordOf(store', lastOp'.id).dateModified = now
       ]_vars

\* a record created at the first instant was just reordered at a later one and
\* carries that later instant as dateModified
C11_Witness ==
    /\ Succeeded("reorder")
    /\ \E r \in Records(store) :
          /\ r.id = lastOp.id
          /\ r.dateCreated = 0 /\ now > 0 /\ r.dateModified = now

\* the display orders along a list never decrease
Ascending(xs) == \A i, j \in DOMAIN xs : i < j => xs[i].displayOrder <= xs[j].displayOrder

\* C12: a listing with a product filter returns exactly the records of that
\* product, in ascending displayOrder, whatever creates, updates, reorders and
\* deletes came before.
C12_ListAscending ==
    (lastOp.op = "list" /\ lastOp.id \in Products)
    => LET listed == productImageListOf(store, Some(lastOp.id))
       IN /\ {listed[i].id : i \in DOMAIN listed}
               = {r.id : r \in {q \in Records(store) : q.productId = lastOp.id}}
          /\ Len(listed) = Cardinality({listed[i].id : i \in DOMAIN listed})
          /\ Ascending(listed)

\* C13: with the storage calls of two create(isPrimary = true) / setPrimary
\* calls on one product free to alternate, a product can end up with two
\* primary records; when the calls are serialized (one call runs from its first
\* storage call to its last before another starts) no product ever has two.
C13_SerializedNoTwoPrimaries ==
    serialized => \A p \in Products : Cardinality(Primaries(store, p)) <= 1

\* without the lock, both calls have ended and product 9 has two primary records
C13_Witness ==
    /\ ~serialized
    /\ \A c \in Callers : calls[c] = Idle
    /\ Cardinality(Primaries(store, 9)) = 2

\* the number of primary records of a product
PrimaryCount(s, productId) == Cardinality(Primaries(s, productId))

\* C14 as stated: every product that has a stored record has exactly one
\* primary record.
C14_ExactlyOnePrimary ==
    \A p \in Products :
       (\E r \in Records(store) : r.productId = p) => PrimaryCount(store, p) = 1

\* C14 as amended: a product never has more than one primary record, and it may
\* have none: it gets its primary record only by a successful create, update or
\* setPrimary that leaves its target primary, and it loses it only by a
\* successful delete of the primary record or update of it.
C14_ZeroOrOnePrimary ==
    /\ [](\A p \in Products : PrimaryCount(store, p) \in {0, 1})
    /\ [][\A p \in Products :
            /\ (PrimaryCount(store, p) = 0 /\ PrimaryCount(store', p) = 1)
                 => /\ lastOp'.status = "OK"
                    /\ lastOp'.op \in {"create", "update", "setPrimary"}
                    /\ Primaries(store', p) = {RecordOf(store', lastOp'.id)}
            /\ (PrimaryCount(store, p) = 1 /\ PrimaryCount(store', p) = 0)
                 => /\ lastOp'.status = "OK"
                    /\ lastOp'.op \in {"delete", "update"}
                    /\ \A r \in Primaries(store, p) : r.id = lastOp'.id
         ]_vars

\* an update has just taken the flag from the primary record of a product that
\* still has two records, and the product is left without a primary record
C14_Witness ==
    /\ Succeeded("update")
    /\ \E r \in Records(store) :
          /\ r.id = lastOp.id /\ ~r.isPrimary
          /\ Siblings(store, r) # {}
          /\ PrimaryCount(store, r.productId) = 0

\* the angle a request body names, and whether it is none of the four
AngleOf(a) == parseInt(a[1].text)
OutsideAngles(a) == a # None /\ AngleOf(a) \notin PRODUCT_IMAGE_ROTATION_ANGLES

C16_IdAndOwnerImmutable ==
    [][IF Answered("delete", "OK") /\ productImageDelete(lastOp'.id)
       THEN /\ Len(store') = Len(store) - 1
            /\ \A i \in DOMAIN store' :
                  \E j \in DOMAIN store :
                     /\ store[j].id # lastOp'.id
                     /\ store'[i].id = store[j].id
                     /\ store'[i].productId = store[j].productId
       ELSE /\ Len(store') >= Len(store)
            /\ \A i \in DOMAIN store :
                  /\ store'[i].id = store[i].id
                  /\ store'[i].productId = store[i].productId
            /\ Answered("create", "OK") =>
                  /\ Len(store') = Len(store) + 1
                  /\ store'[Len(store')].id = nextId
                  /\ \A body \in CreateBodies :
                        productImageCreate(body)
                        => store'[Len(store')].productId = body.productId
      ]_vars

\* a record of product 7 was just updated to primary with a new display order,
\* next to a record of product 9, and is still record lastOp.id of product 7
C16_Witness ==
    /\ Succeeded("update")
    /\ \E r \in Records(store) :
          /\ r.id = lastOp.id /\ r.productId = 7
          /\ r.isPrimary /\ r.displayOrder = 4
          /\ \E q \in Records(store) : q.productId = 9

\* the four cells of the view state
viewState == <<currentIndex, zoomLevel, rotation, isFullscreen>>

\* C17: on a list of N > 0 images with currentIndex in 0 .. N-1, goToNext moves
\* currentIndex to (currentIndex + 1) mod N and goToPrevious to
\* (currentIndex - 1) mod N, wrapping at both ends; on an empty list both leave
\* the view state as it was.
C17_NavigationWraps ==
    [][LET N == Len(images)
       IN /\ (goToNext /\ N > 0 /\ currentIndex \in 0 .. N - 1)
               => currentIndex' = (currentIndex + 1) % N
          /\ (goToPrevious /\ N > 0 /\ currentIndex \in 0 .. N - 1)
               => currentIndex' = (currentIndex - 1) % N
          /\ ((goToNext \/ goToPrevious) /\ N = 0)
               => UNCHANGED viewState
      ]_vars

\* goToPrevious has just wrapped from the first of three images to the last
C17_Witness ==
    /\ Len(images) = 3
    /\ lastCall.op = "goToPrevious" /\ lastCall.from = 0
    /\ currentIndex = 2

\* C18: every step that changes currentIndex (goToNext and goToPrevious on a
\* list with images, goToImage) ends with zoomLevel 1.0 and rotation 0: the zoom
\* and rotation chosen for one index are not kept for another.
C18_IndexChangeResetsView ==
    [][currentIndex' # currentIndex
         => /\ goToNext \/ goToPrevious \/ \E index \in IndexArgs : goToImage(index)
            /\ zoomLevel' = 10
            /\ rotation' = 0
      ]_vars

\* a jump to another index has just been made from zoom 2.5 and rotation 180,
\* and the view is back at zoom 1.0 and rotation 0
C18_Witness ==
    /\ lastCall.op = "goToImage"
    /\ lastCall.from # currentIndex
    /\ lastCall.zoom = 25 /\ lastCall.angle = 180
    /\ zoomLevel = 10 /\ rotation = 0

\* C19: zoomLevel is always 1.0, 1.5, 2.0, 2.5 or 3.0.  zoomIn raises it by 0.5
\* and stops at 3.0, zoomOut lowers it by 0.5 and stops at 1.0, resetZoom sets
\* it to 1.0; a zoomIn at 3.0 and a zoomOut at 1.0 change nothing.
C19_ZoomClamped ==
    /\ [](zoomLevel \in {10, 15, 20, 25, 30})
    /\ [][
          /\ zoomIn => zoomLevel' = IF zoomLevel + 5 <= 30 THEN zoomLevel + 5 ELSE 30
          /\ zoomOut => zoomLevel' = IF zoomLevel - 5 >= 10 THEN zoomLevel - 5 ELSE 10
          /\ resetZoom => zoomLevel' = 10
          /\ (zoomIn /\ zoomLevel = 30) => zoomLevel' = 30
          /\ (zoomOut /\ zoomLevel = 10) => zoomLevel' = 10
       ]_vars

\* a zoomIn made at 3.0, the level four zoomIn from 1.0 lead to, has left 3.0
C19_Witness ==
    /\ lastCall.op = "zoomIn"
    /\ lastCall.zoom = 30
    /\ zoomLevel = 30

\* four rotateImage calls in a row, applied to a rotation
FourTurns(r) == rotateUpdater(rotateUpdater(rotateUpdater(rotateUpdater(r))))

\* C20: rotateImage moves the view rotation to (rotation + 90) mod 360 and
\* touches nothing else; the rotation is always 0, 90, 180 or 270, and four
\* rotateImage calls with nothing in between bring it back to where it was.
C20_RotateQuarterTurns ==
    /\ [](/\ rotation \in {0, 90, 180, 270}
          /\ FourTurns(rotation) = rotation)
    /\ [][rotateImage
            => /\ rotation' = (rotation + 90) % 360
               /\ UNCHANGED <<images, currentIndex, zoomLevel, isFullscreen>>
         ]_vars

\* the rotateImage that completes a full turn has just taken the view from 270
\* back to 0
C20_Witness ==
    /\ lastCall.op = "rotateImage"
    /\ lastCall.angle = 270
    /\ rotation = 0

\* C21: a list refresh re-clamps currentIndex: when the list query delivers a
\* shorter, non-empty list while currentIndex is a valid index of the list
\* shown so far, currentIndex is afterwards a valid index of the new list and
\* currentImage is one of its elements.
C21_RefreshReclampsIndex ==
    [][\A n \in 1 .. MaxImages :
          (/\ queryData(n)
           /\ n < Len(images)
           /\ currentIndex \in 0 .. Len(images) - 1)
          => /\ currentIndex' \in 0 .. n - 1
             /\ currentImage' # None
      ]_vars

\* C22: a key-down event does what its key stands for and nothing else:
\* ArrowLeft is goToPrevious, ArrowRight is goToNext, Home is the jump to index
\* 0, End is the jump to index N-1 on a list with images and changes nothing on
\* an empty one, Escape leaves fullscreen when isFullscreen holds and changes
\* nothing when it does not (it never turns fullscreen on), and any other key
\* changes nothing.
C22_KeyDownEffects ==
    [][event'.type = "keydown"
         => LET key == event'.key
                N == Len(images)
            IN /\ key = "ArrowLeft" => goToPrevious
               /\ key = "ArrowRight" => goToNext
               /\ key = "Home" => goToImage(0)
               /\ key = "End"
                    => IF N > 0 THEN goToImage(N - 1) ELSE UNCHANGED <<images, viewState>>
               /\ key = "Escape"
                    => /\ ~isFullscreen'
                       /\ UNCHANGED <<images, currentIndex, zoomLevel, rotation>>
               /\ key \notin {"ArrowLeft", "ArrowRight", "Home", "End", "Escape"}
                    => UNCHANGED <<images, viewState>>
      ]_vars

\* Escape has just been pressed in fullscreen and the gallery has left it, with
\* the zoom and rotation chosen before still in place
C22_Witness ==
    /\ event = [type |-> "keydown", key |-> "Escape"]
    /\ lastCall.op = "toggleFullscreen"
    /\ ~isFullscreen
    /\ zoomLevel = 15 /\ rotation = 90

\* C27: at any time at most one key-down listener of the controller instance is
\* registered on window: while the gallery is mounted it is exactly the handler
\* of the latest render (it holds the current list length and fullscreen flag),
\* however often the effect re-ran, and after unmount none is left.
C27_OneKeyDownListener ==
    /\ Len(listeners) <= 1
    /\ mounted => listeners = <<[length |-> Len(images), isFullscreen |-> isFullscreen]>>
    /\ ~mounted => listeners = <<>>

\* the gallery has just been unmounted and no listener is left
C27_Witness ==
    /\ ~mounted
    /\ event.type = "unmount"
    /\ listeners = <<>>

\* C26: the pan offset is (0, 0) whenever zoomLevel is 1.0.  It changes only by
\* a mouse move of a drag at zoomLevel > 1.0 or by the reset to the origin; a
\* drag starts only at zoomLevel > 1.0; and every step that changes
\* currentIndex or brings zoomLevel back to 1.0 ends with the offset at the
\* origin.
C26_PanOnlyWhileZoomed ==
    /\ [](zoomLevel = 10 => imagePosition = [x |-> 0, y |-> 0])
    /\ [][
          /\ imagePosition' # imagePosition
               => \/ /\ event'.type = "mousemove"
                     /\ isDragging /\ zoomLevel > 10
                  \/ /\ imagePosition' = [x |-> 0, y |-> 0]
                     /\ zoomLevel' = 10
          /\ (isDragging' /\ ~isDragging) => zoomLevel > 10
          /\ (currentIndex' # currentIndex \/ (zoomLevel' = 10 /\ zoomLevel # 10))
               => imagePosition' = [x |-> 0, y |-> 0]
       ]_vars

\* a drag begun at offset (1, 2) is still held when goToNext, at zoom 1.5,
\* changes the index: the offset is back at the origin
C26_Witness ==
    /\ lastCall.op = "goToNext" /\ lastCall.zoom = 15 /\ lastCall.from # currentIndex
    /\ isDragging /\ dragStart = [x |-> -1, y |-> -2]
    /\ zoomLevel = 10 /\ imagePosition = [x |-> 0, y |-> 0]

\* C23: setPrimary and reorderImage of the controller only delegate.  The
\* step that makes the call changes neither the controller's list nor the
\* store; the list changes only when the answer of a list request is delivered;
\* the list query is invalidated exactly when an answer OK of the engine to the
\* mutation arrives, never before; and when the refetched list has been
\* delivered and the engine has served no call since, the controller's list is
\* the engine's list of the product.
C23_MutationsDelegate ==
    /\ []((query.status = "fresh" /\ lastOp.op = "list")
             => images = productImageListOf(store, Some(galleryProductId)))
    /\ [][
          /\ images' # images
               => query.status = "fetching" /\ images' = query.data
          /\ (mutation'.status = "pending" /\ mutation.status # "pending")
               => UNCHANGED <<images, store, query>>
          /\ (query'.status = "stale" /\ query.status # "stale")
               => mutation.status = "answered" /\ mutation.answer = "OK"
          /\ (mutation.status = "answered" /\ mutation.answer = "OK" /\ mutation' # mutation)
               => mutation'.status = "success" /\ query'.status = "stale"
       ]_vars

\* setPrimary(2) has succeeded, the refetched list has been delivered, and the
\* controller shows both images of the product with the flag on the second
C23_Witness ==
    /\ mutation.status = "success"
    /\ query.status = "fresh" /\ lastOp.op = "list"
    /\ Len(images) = 2
    /\ ~images[1].isPrimary /\ images[2].isPrimary
    /\ images = productImageListOf(store, Some(galleryProductId))

\* C24: when the engine rejects a setPrimary or reorderImage call of the
\* controller, the promise fails with the error the engine answered, the
\* engine is not called again for it, the list query is not invalidated, and
\* currentIndex, zoomLevel, rotation and isFullscreen stay as they were.
C24_RejectionLeavesView ==
    [][
       /\ (mutation.status = "pending" /\ mutation' # mutation)
            => /\ mutation'.status = "answered"
               /\ mutation'.answer = lastOp'.status
               /\ lastOp'.op = mutation.op /\ lastOp'.id = mutation.id
       /\ (mutation.status = "answered" /\ mutation.answer # "OK" /\ mutation' # mutation)
            => /\ mutation'.status = "error"
               /\ mutation'.answer = mutation.answer
               /\ UNCHANGED <<query, viewState, images, store, lastOp>>
      ]_vars

\* a call for an id the engine does not hold has failed with NOT_FOUND while
\* the list shown is fresh and the view is rotated by 90
C24_Witness ==
    /\ mutation.status = "error" /\ mutation.answer = "NOT_FOUND"
    /\ query.status = "fresh"
    /\ Len(images) > 0
    /\ rotation = 90

\* C25: rotateImage is view-only: it makes no engine call and changes no stored
\* record, nor the requests under way or the list shown.  Conversely no engine
\* call and no delivery of the list changes the view rotation, whatever
\* rotation the record of the image shown stores.
C25_RotateImageViewOnly ==
    [][
       /\ rotateImage => UNCHANGED <<store, nextId, lastOp, mutation, query, images>>
       /\ (store' # store \/ lastOp' # lastOp \/ images' # images) => rotation' = rotation
      ]_vars

\* the record of the image shown stores rotation 90 and the view has been
\* turned to 180: the record still says 90
C25_Witness ==
    /\ currentImage # None
    /\ RecordOf(store, currentImage[1].id).rotation = 90
    /\ lastCall.op = "rotateImage"
    /\ rotation = 180

\* the records of the other products, in store order
OtherProducts(s, productId) == SelectSeq(s, LAMBDA r : r.productId # productId)

\* C28: an engine call changes records of one product only.  A successful
\* update, reorder, setPrimary or delete leaves every record of a product other
\* than the addressed record's as it was, field by field; so does a successful
\* create for the products other than the new record's, and a create whose
\* record is not primary changes no record that existed before.
C28_ProductIsolation ==
    [][
       /\ Answered("create", "OK")
            => LET new == store'[Len(store')]
               IN /\ OtherProducts(store', new.productId) = OtherProducts(store, new.productId)
                  /\ ~new.isPrimary => SubSeq(store', 1, Len(store)) = store
       /\ (lastOp'.status = "OK" /\ lastOp'.op \in {"update", "reorder", "setPrimary", "delete"})
            => LET productId == RecordOf(store, lastOp'.id).productId
               IN OtherProducts(store', productId) = OtherProducts(store, productId)
      ]_vars

\* setPrimary has just moved the flag within product 7 while product 9 keeps
\* its own primary image
C28_Witness ==
    /\ Succeeded("setPrimary")
    /\ \E r \in Records(store), q \in Records(store) :
          /\ r.id = lastOp.id /\ r.productId = 7 /\ r.isPrimary
          /\ q.productId = 9 /\ q.isPrimary

\* the records of a store without their dateModified
WithoutDateModified(s) ==
    [i \in DOMAIN s |-> [f \in DOMAIN s[i] \ {"dateModified"} |-> s[i][f]]]

\* C29: create and setPrimary sweep alike.  Whenever create(c) with
\* c.isPrimary = true succeeds, the store it leaves is, on every field except
\* dateModified, the store that create(c with isPrimary = false) followed by
\* setPrimary(id of the new record) leaves from the same state.
C29_CreatePrimaryIsCreateThenSetPrimary ==
    [][Answered("create", "OK")
         => \A c \in CreateBodies :
               (Truthy(c.isPrimary) /\ productImageCreate(c))
               => LET plain == [c EXCEPT !.isPrimary = Some(FALSE)]
                      created == createStore(store, nextId, plain, now)
                  IN WithoutDateModified(store')
                       = WithoutDateModified(setPrimaryStore(created, nextId, now))
      ]_vars

\* a primary image has just been created as the second record of product 7 and
\* the first record does not carry the flag
C29_Witness ==
    /\ Succeeded("create")
    /\ Len(store) = 2
    /\ store[1].productId = 7 /\ ~store[1].isPrimary
    /\ store[2].productId = 7 /\ store[2].isPrimary /\ store[2].id = lastOp.id

\* C30: a displayOrder of 0 is replaced only by create.  A successful
\* update(id, input) with input.displayOrder = 0 and a successful reorder(id, 0)
\* leave the target with displayOrder 0, while a successful create with
\* displayOrder 0 stores the next free order of the product, which is not 0.
C30_ZeroOrderLiteral ==
    [][
       /\ Answered("update", "OK")
            => \A body \in UpdateBodies :
                  (body.displayOrder = Some(0) /\ productImageUpdate(lastOp'.id, body))
                  => RecordOf(store', lastOp'.id).displayOrder = 0
       /\ (Answered("reorder", "OK") /\ productImageReorder(lastOp'.id, [newOrder |-> 0]))
            => RecordOf(store', lastOp'.id).displayOrder = 0
       /\ Answered("create", "OK")
            => \A body \in CreateBodies :
                  (body.displayOrder = Some(0) /\ productImageCreate(body))
                  => store'[Len(store')].displayOrder > 0
      ]_vars

\* reorder(id, 0) has just succeeded on a record that has a sibling: the target
\* stores displayOrder 0 and the sibling keeps its order
C30_Witness ==
    /\ Succeeded("reorder")
    /\ \E r \in Records(store), q \in Records(store) :
          /\ r.id = lastOp.id /\ r.displayOrder = 0
          /\ q.id # r.id /\ q.productId = r.productId /\ q.displayOrder > 0

\* C31: update treats a caption of null like an omitted one.  A successful
\* update whose body has caption null, or no caption, leaves the stored caption
\* as it was, and no successful update turns a stored caption that is not null
\* into null.
C31_NullCaptionKeepsCaption ==
    [][Answered("update", "OK")
         => LET old == RecordOf(store, lastOp'.id).caption
                new == RecordOf(store', lastOp'.id).caption
            IN /\ old # Null => new # Null
               /\ \A body \in FieldsUpdateBodies :
                     (body.caption \in {None, Some(Null)} /\ productImageUpdate(lastOp'.id, body))
                     => new = old
      ]_vars

\* an update has just succeeded on the record created with caption "front" and
\* every other field given: it carries the url of the update bodies and still
\* the caption "front"
C31_Witness ==
    /\ Succeeded("update")
    /\ \E r \in Records(store) :
          /\ r.id = lastOp.id
          /\ r.url = "https://x/b.jpg"
          /\ r.caption = "front"
          /\ r.width = 640 /\ r.height = 480

\* C32: a call whose input fails validation ends with VALIDATION_ERROR and
\* leaves the store and the id counter as they were.  A create with a rejected
\* body, any call with a malformed id, and an update or reorder with a rejected
\* body end that way whether or not the addressed id is in the store: for an
\* absent id the answer is VALIDATION_ERROR, not NOT_FOUND.
C32_ValidationFirst ==
    [][
       /\ lastOp'.status = "VALIDATION_ERROR" => UNCHANGED <<store, nextId>>
       /\ lastOp'.op = "create"
            => \A body \in CreateBodies :
                  (~createSchema(body) /\ productImageCreate(body))
                  => lastOp'.status = "VALIDATION_ERROR"
       /\ lastOp'.op \in {"update", "reorder"}
            => (InvalidCallOn(lastOp'.id) => lastOp'.status = "VALIDATION_ERROR")
       /\ (lastOp'.op \in {"get", "update", "delete", "reorder", "setPrimary"}
             /\ ~paramsSchema(lastOp'.id))
            => lastOp'.status = "VALIDATION_ERROR"
      ]_vars

\* an update with a rejected body, addressed to the well-formed id 2 that the
\* store does not hold, has just ended with VALIDATION_ERROR
C32_Witness ==
    /\ lastOp = Result("update", 2, "VALIDATION_ERROR")
    /\ store # <<>>
    /\ ~storeExists(store, 2)

\* C33: on a list of N > 0 images, goToNext and goToPrevious taken from any
\* currentIndex >= 0 end with currentIndex in 0 .. N-1, also from a stale index
\* >= N that a shorter refreshed list or a jump has left behind.
C33_NavigationRestoresBound ==
    [][LET N == Len(images)
       IN ((goToNext \/ goToPrevious) /\ N > 0 /\ currentIndex >= 0)
            => currentIndex' \in 0 .. N - 1
      ]_vars

\* the list shrank from three images to two while the last one was shown, and
\* goToNext has just brought the stale index 2 back into the list
C33_Witness ==
    /\ Len(images) = 2
    /\ lastCall.op = "goToNext" /\ lastCall.from = 2
    /\ currentIndex = 1

====
